---------------------------- MODULE Spec2Model ----------------------------
(***************************************************************************)
(* A model of the pcl bound-program core: the node binding flags           *)
(* (src/unnamed/part_000, type node), the binder pass that drives them     *)
(* (spec.md section 4.3; binder code is not part of the excerpt) and the   *)
(* Program package queries (PackageReferences, Packages,                   *)
(* PackageSnapshots).                                                      *)
(***************************************************************************)
EXTENDS Integers, Sequences, FiniteSets, TLC

\* ------------------------------------------------------------------ bounds
\* Number of top-level declarations of a program (node ids 1..NumNodes, in
\* source order).
NumNodes == 4
\* Longest dependency list handed to setDependencies by a direct caller.
MaxDeps == 2
\* Total number of references to top-level names in the bodies of a program.
MaxEdges == 3
\* Number of packages a program references.
MaxPkgs == 3

Nodes == 1..NumNodes

\* All sequences over S of length at most n.
BoundedSeq(S, n) == UNION {[1..k -> S] : k \in 0..n}

DepLists == BoundedSeq(Nodes, MaxDeps)

VARIABLES
  r,      \* one node object driven directly through its methods
  hist,   \* history of the calls made on r
  ret,    \* the last call made on r and what it returned
  nodes,  \* binder: the node object of each declaration
  body,   \* binder: per declaration, the top-level names its body references
  names,  \* binder: the lookup table of registered names
  phase,  \* binder: "register", "bind" or "done"
  next,   \* binder: position of the source-order loop
  stack,  \* binder: the recursion stack of nodes being bound
  diags,  \* binder: number of circular-reference diagnostics produced
  calls,  \* binder: per node, how often each method was called
  boundOrder,  \* binder: the nodes in the order markBound() was called
  referencedPackages,  \* binder.referencedPackages: package name -> reference
  returned,  \* whether the bind pass has returned the Program
  out,       \* the last Program query and what it returned
  usage,     \* resolver: per partial reference, the members recorded as used
  handed,    \* resolver: per package name, the references resolve() returned
  recorded,  \* resolver: every (package, member) usage notified so far
  resolved,  \* resolver: the reference the last resolve() returned, whether
             \* its name had been resolved before, and the members notified
             \* through it since
  env,       \* the process environment os.Getenv reads
  got,       \* the last getEnvOrDefault call and what it returned
  args,      \* runNewPolicyPack: its newPolicyArgs
  pc,        \* runNewPolicyPack: the statement to execute next
  steps,     \* runNewPolicyPack: the calls made so far, with their outcome
  templates, \* runNewPolicyPack: len(templates)
  repo,      \* runNewPolicyPack: whether the deferred repo.Delete() is set up
  result     \* runNewPolicyPack: the error returned, "nil" for none

nodeVars == <<r, hist, ret>>
bindVars == <<nodes, body, names, phase, next, stack, diags, calls, boundOrder>>
pkgVars == <<referencedPackages, returned, out>>
resVars == <<usage, handed, recorded, resolved>>
envVars == <<env, got>>
polVars == <<args, pc, steps, templates, repo, result>>
vars == <<r, hist, ret, nodes, body, names, phase, next, stack, diags, calls,
          boundOrder, referencedPackages, returned, out, usage, handed,
          recorded, resolved, env, got, args, pc, steps, templates, repo,
          result>>

\* What each specification leaves alone.
notNode == <<bindVars, pkgVars, resVars, envVars, polVars>>
notBind == <<nodeVars, pkgVars, resVars, envVars, polVars>>
notPkg == <<nodeVars, bindVars, resVars, envVars, polVars>>
notRes == <<nodeVars, bindVars, envVars, polVars>>
notEnv == <<nodeVars, bindVars, pkgVars, resVars, polVars>>
notPol == <<nodeVars, bindVars, pkgVars, resVars, envVars>>

\* ------------------------------------------------------------ type node
\* The zero value of struct node: binding = false, bound = false, deps = nil
\* (a nil slice is the empty list).
NewNode == [binding |-> FALSE, bound |-> FALSE, deps |-> <<>>]

\* Faulty variant: markBinding written as a re-initialisation that also clears bound.
markBinding_Reset(n) == [n EXCEPT !.binding = TRUE, !.bound = FALSE]

markBinding(n) == [n EXCEPT !.binding = TRUE]

\* Faulty variant of markBound: the flag is flipped instead of set.
markBound_Toggle(n) == [n EXCEPT !.bound = ~n.bound]

\* Variant: markBound written as the guarded transition Binding -> Bound only.
markBound_Guarded(n) == IF n.binding THEN [n EXCEPT !.bound = TRUE] ELSE n

markBound(n) == [n EXCEPT !.bound = TRUE]

\* Faulty variant: isBinding without the "not yet bound" conjunct.
isBinding_FlagOnly(n) == n.binding

isBinding(n) == n.binding /\ ~n.bound

\* Faulty variant: isBound reading the wrong flag.
isBound_WrongFlag(n) == n.binding

isBound(n) == n.bound

\* Variant: getDependencies guarded by the bound flag.
getDependencies_Guarded(n) == IF n.bound THEN n.deps ELSE <<>>

getDependencies(n) == n.deps

\* Faulty variant: setDependencies that stores nothing.
setDependencies_Drop(n, ds) == n

setDependencies(n, ds) == [n EXCEPT !.deps = ds]

\* The three states of spec.md section 4.1, read off the two flags.
Unbound(n) == ~n.binding /\ ~n.bound

\* --------------------------------------------- Spec: direct calls on a node
NoHist == [mb |-> FALSE, md |-> FALSE, sd |-> FALSE, arg |-> <<>>, late |-> {}]

NoRet == [op |-> "new", b |-> FALSE, l |-> <<>>]

\* The mutators called on r while r was already Bound.
Late(op) == IF isBound(r) THEN hist.late \cup {op} ELSE hist.late

\* The binder variables before any program is handed to the binder.
NoCalls == [markBinding |-> 0, markBound |-> 0, setDependencies |-> 0]

BindIdle ==
  /\ nodes = [n \in Nodes |-> NewNode]
  /\ body = [n \in Nodes |-> <<>>]
  /\ names = {}
  /\ phase = "register"
  /\ next = 1
  /\ stack = <<>>
  /\ diags = 0
  /\ calls = [n \in Nodes |-> NoCalls]
  /\ boundOrder = <<>>

\* The empty map: no package referenced yet.
NoPackages == [k \in {} |-> {}]

\* "No query made yet".
NoOut == [op |-> "none", inOrder |-> TRUE, values |-> <<>>, isNil |-> FALSE,
          err |-> <<>>, panic |-> FALSE, touched |-> <<>>]

PkgIdle ==
  /\ referencedPackages = NoPackages
  /\ returned = FALSE
  /\ out = NoOut

\* "No reference": what resolved holds before the first resolve().
NoRef == [name |-> <<>>, partial |-> FALSE, defErr |-> FALSE, snapErr |-> FALSE]

NoResolved == [ref |-> NoRef, again |-> FALSE, notified |-> {}]

ResolverIdle ==
  /\ usage = NoPackages
  /\ handed = NoPackages
  /\ recorded = {}
  /\ resolved = NoResolved

\* The environment variables a caller can name.
VarNames == {"A", "B", "C"}

\* An interface{} value: t is its dynamic type ("nil" for the nil
\* interface), n its number (a bool as 0 or 1, a float64 in tenths), s its
\* string.
NilValue == [t |-> "nil", n |-> 0, s |-> ""]

\* "No call made yet".
NoGot == [how |-> "none", def |-> NilValue, parser |-> "nil", vars |-> <<>>,
          value |-> NilValue, looked |-> <<>>]

EnvIdle ==
  /\ env = [v \in VarNames |-> ""]
  /\ got = NoGot

NoArgs == [dir |-> FALSE, force |-> FALSE, generateOnly |-> FALSE]

PolicyIdle ==
  /\ args = NoArgs
  /\ pc = "idle"
  /\ steps = <<>>
  /\ templates = 0
  /\ repo = FALSE
  /\ result = "nil"

Init ==
  /\ r = NewNode
  /\ hist = NoHist
  /\ ret = NoRet
  /\ BindIdle
  /\ PkgIdle
  /\ ResolverIdle
  /\ EnvIdle
  /\ PolicyIdle

MarkBinding ==
  /\ r' = markBinding(r)
  /\ hist' = [hist EXCEPT !.mb = TRUE, !.late = Late("markBinding")]
  /\ ret' = [NoRet EXCEPT !.op = "markBinding"]
  /\ UNCHANGED notNode

MarkBound ==
  /\ r' = markBound(r)
  /\ hist' = [hist EXCEPT !.md = TRUE, !.late = Late("markBound")]
  /\ ret' = [NoRet EXCEPT !.op = "markBound"]
  /\ UNCHANGED notNode

SetDependencies ==
  \E ds \in DepLists :
    /\ r' = setDependencies(r, ds)
    /\ hist' = [hist EXCEPT !.sd = TRUE, !.arg = ds,
                            !.late = Late("setDependencies")]
    /\ ret' = [NoRet EXCEPT !.op = "setDependencies"]
    /\ UNCHANGED notNode

IsBinding ==
  /\ ret' = [NoRet EXCEPT !.op = "isBinding", !.b = isBinding(r)]
  /\ UNCHANGED <<r, hist>>
  /\ UNCHANGED notNode

IsBound ==
  /\ ret' = [NoRet EXCEPT !.op = "isBound", !.b = isBound(r)]
  /\ UNCHANGED <<r, hist>>
  /\ UNCHANGED notNode

GetDependencies ==
  /\ ret' = [NoRet EXCEPT !.op = "getDependencies", !.l = getDependencies(r)]
  /\ UNCHANGED <<r, hist>>
  /\ UNCHANGED notNode

Next ==
  \/ MarkBinding
  \/ MarkBound
  \/ SetDependencies
  \/ IsBinding
  \/ IsBound
  \/ GetDependencies

Spec == Init /\ [][Next]_vars

\* ------------------------------------- SpecBind: one bind pass (spec 4.3)
\* The elements of a sequence.
Range(s) == {s[i] : i \in 1..Len(s)}

\* Number of references in the bodies of declarations 1..n.
RECURSIVE RefCount(_)
RefCount(n) == IF n = 0 THEN 0 ELSE Len(body[n]) + RefCount(n - 1)

\* The bodies a declaration may have when the declarations before it hold
\* `used` references: the sequence of top-level names the body references,
\* in traversal order, repeats included.
Bodies(used) == BoundedSeq(Nodes, MaxEdges - used)

\* A stack frame: the node being bound, the next reference of its body to
\* resolve, the deduplicated references collected so far, and whether its
\* dependencies have been stored.
Frame(n) == [node |-> n, i |-> 1, refs |-> <<>>, pc |-> "body"]

Top == stack[Len(stack)]

Pop == SubSeq(stack, 1, Len(stack) - 1)

\* Faulty variant of AddRef: every occurrence contributes an edge.
AddRef_NoDedup(refs, t) == Append(refs, t)

\* One dependency edge per referenced node, however often it is referenced.
AddRef(refs, t) == IF t \in Range(refs) THEN refs ELSE Append(refs, t)

Called(n, op) == [calls EXCEPT ![n][op] = @ + 1]

InitBind ==
  /\ r = NewNode
  /\ hist = NoHist
  /\ ret = NoRet
  /\ BindIdle
  /\ PkgIdle
  /\ ResolverIdle
  /\ EnvIdle
  /\ PolicyIdle

\* Step 1: every declared name is registered, in source order, before any
\* body is bound. The declaration read here is the binder's input: any body
\* over the declared names.
RegisterName ==
  /\ phase = "register"
  /\ \E b \in Bodies(RefCount(next - 1)) :
       body' = [body EXCEPT ![next] = b]
  /\ names' = names \cup {next}
  /\ IF next = NumNodes
       THEN phase' = "bind" /\ next' = 1
       ELSE phase' = phase /\ next' = next + 1
  /\ UNCHANGED <<nodes, stack, diags, calls, boundOrder>>
  /\ UNCHANGED notBind

\* Step 2, source-order loop: a node that is already Bound is skipped.
SkipBound ==
  /\ phase = "bind" /\ stack = <<>> /\ next <= NumNodes
  /\ isBound(nodes[next])
  /\ next' = next + 1
  /\ UNCHANGED <<nodes, body, names, phase, stack, diags, calls, boundOrder>>
  /\ UNCHANGED notBind

\* Step 2, source-order loop: otherwise markBinding() and bind the body.
BeginDeclaration ==
  /\ phase = "bind" /\ stack = <<>> /\ next <= NumNodes
  /\ ~isBound(nodes[next])
  /\ nodes' = [nodes EXCEPT ![next] = markBinding(@)]
  /\ calls' = Called(next, "markBinding")
  /\ stack' = <<Frame(next)>>
  /\ next' = next + 1
  /\ UNCHANGED <<body, names, phase, diags, boundOrder>>
  /\ UNCHANGED notBind

\* The reference the top frame resolves next.
Resolving ==
  /\ phase = "bind" /\ stack # <<>>
  /\ Top.pc = "body"
  /\ Top.i <= Len(body[Top.node])
  /\ body[Top.node][Top.i] \in names

Target == body[Top.node][Top.i]

\* A reference to a Bound node produces a dependency edge.
ResolveBound ==
  /\ Resolving
  /\ isBound(nodes[Target])
  /\ stack' = [stack EXCEPT ![Len(stack)] =
                 [@ EXCEPT !.i = @ + 1, !.refs = AddRef(@, Target)]]
  /\ UNCHANGED <<nodes, body, names, phase, next, diags, calls, boundOrder>>
  /\ UNCHANGED notBind

\* Step 4: a reference to a node that isBinding() is a circular reference:
\* a diagnostic is produced and the binding of every node on the
\* resolution stack is abandoned (none of them calls markBound()).
CircularReference ==
  /\ Resolving
  /\ ~isBound(nodes[Target])
  /\ isBinding(nodes[Target])
  /\ diags' = diags + 1
  /\ stack' = <<>>
  /\ UNCHANGED <<nodes, body, names, phase, next, calls, boundOrder>>
  /\ UNCHANGED notBind

\* A reference to an Unbound node binds that node first (recursion); the
\* reference is resolved again when the recursion returns.
BindDependency ==
  /\ Resolving
  /\ ~isBound(nodes[Target])
  /\ ~isBinding(nodes[Target])
  /\ nodes' = [nodes EXCEPT ![Target] = markBinding(@)]
  /\ calls' = Called(Target, "markBinding")
  /\ stack' = Append(stack, Frame(Target))
  /\ UNCHANGED <<body, names, phase, next, diags, boundOrder>>
  /\ UNCHANGED notBind

\* Step 3, first half: the body completed, store the deduplicated references.
StoreDependencies ==
  /\ phase = "bind" /\ stack # <<>>
  /\ Top.pc = "body"
  /\ Top.i > Len(body[Top.node])
  /\ nodes' = [nodes EXCEPT ![Top.node] = setDependencies(@, Top.refs)]
  /\ calls' = Called(Top.node, "setDependencies")
  /\ stack' = [stack EXCEPT ![Len(stack)] = [@ EXCEPT !.pc = "deps"]]
  /\ UNCHANGED <<body, names, phase, next, diags, boundOrder>>
  /\ UNCHANGED notBind

\* Step 3, second half: markBound() and return to the caller.
FinishNode ==
  /\ phase = "bind" /\ stack # <<>>
  /\ Top.pc = "deps"
  /\ nodes' = [nodes EXCEPT ![Top.node] = markBound(@)]
  /\ calls' = Called(Top.node, "markBound")
  /\ boundOrder' = Append(boundOrder, Top.node)
  /\ stack' = Pop
  /\ UNCHANGED <<body, names, phase, next, diags>>
  /\ UNCHANGED notBind

\* The source-order loop is over: the Program is assembled.
FinishPass ==
  /\ phase = "bind" /\ stack = <<>> /\ next > NumNodes
  /\ phase' = "done"
  /\ UNCHANGED <<nodes, body, names, next, stack, diags, calls, boundOrder>>
  /\ UNCHANGED notBind

NextBind ==
  \/ RegisterName
  \/ SkipBound
  \/ BeginDeclaration
  \/ ResolveBound
  \/ CircularReference
  \/ BindDependency
  \/ StoreDependencies
  \/ FinishNode
  \/ FinishPass

SpecBind == InitBind /\ [][NextBind]_vars

\* ------------------------------ SpecPkg: the Program's package queries
\* Package names are strings, written as their sequences of character codes
\* so that sort.Strings' byte-wise order can be computed: "a", "aa", "ab",
\* "b".
PkgNames == {<<1>>, <<1, 1>>, <<1, 2>>, <<2>>}

\* Go's < on strings: byte-wise lexicographic, a proper prefix first.
StrLess(a, b) ==
  \E i \in 1..Len(b) :
    /\ \A j \in 1..(i - 1) : j <= Len(a) /\ a[j] = b[j]
    /\ (i > Len(a) \/ a[i] < b[i])

\* The references the schema provider can hand out for a name: a full
\* package or a *schema.PartialPackage, each with the outcome of
\* Definition() and, for a partial package, of Snapshot() under the schema
\* state at hand.
Refs(nm) ==
  {[name |-> nm, partial |-> pa, defErr |-> de, snapErr |-> se] :
     pa \in BOOLEAN, de \in BOOLEAN, se \in BOOLEAN} \ 
  {[name |-> nm, partial |-> FALSE, defErr |-> de, snapErr |-> TRUE] :
     de \in BOOLEAN}

NilPkg == [name |-> <<>>, kind |-> "nil"]

\* ref.Definition(): the full definition, or an error.
Definition(ref) ==
  [pkg |-> IF ref.defErr THEN NilPkg
           ELSE [name |-> ref.name, kind |-> "definition"],
   err |-> ref.defErr]

\* partial.Snapshot(): the minimized definition, or an error.
Snapshot(ref) ==
  [pkg |-> IF ref.snapErr THEN NilPkg
           ELSE [name |-> ref.name, kind |-> "snapshot"],
   err |-> ref.snapErr]

\* The orders in which ranging over a map with key set S can yield the keys.
Orders(S) == {o \in [1..Cardinality(S) -> S] : \A k \in S : \E i \in DOMAIN o : o[i] = k}

\* Whether the map happened to yield its keys in ascending order.
InOrder(iter) == \A i \in 1..(Len(iter) - 1) : StrLess(iter[i], iter[i + 1])

\* Place k in the ascending sequence s.
InsertSorted(s, k) ==
  LET later == {i \in 1..Len(s) : StrLess(k, s[i])}
      at == IF later = {} THEN Len(s) + 1
            ELSE CHOOSE i \in later : \A j \in later : i <= j
  IN SubSeq(s, 1, at - 1) \o <<k>> \o SubSeq(s, at, Len(s))

RECURSIVE SortFrom(_, _, _)
SortFrom(keys, i, acc) ==
  IF i > Len(keys) THEN acc ELSE SortFrom(keys, i + 1, InsertSorted(acc, keys[i]))

\* Faulty variant of SortStrings: the keys are left in iteration order.
SortStrings_Skipped(keys) == keys

\* sort.Strings(keys): the keys in ascending order.
SortStrings(keys) == SortFrom(keys, 1, <<>>)

\* Program.PackageReferences, with the order in which the map yields its keys.
PackageReferences(iter) ==
  LET keys == SortStrings(iter)
  IN [i \in 1..Len(keys) |-> referencedPackages[keys[i]]]

\* Faulty variant of PackagesLoop: a failing Definition() leaves its slot
\* unfilled and the loop goes on.
RECURSIVE PackagesLoop_LeaveNil(_, _, _)
PackagesLoop_LeaveNil(refs, i, defs) ==
  IF i > Len(refs) THEN [values |-> defs, panic |-> FALSE]
  ELSE LET d == Definition(refs[i])
       IN PackagesLoop_LeaveNil(refs, i + 1,
            IF d.err THEN defs ELSE [defs EXCEPT ![i] = d.pkg])

\* Program.Packages: the loop over refs; a failing Definition() panics.
RECURSIVE PackagesLoop(_, _, _)
PackagesLoop(refs, i, defs) ==
  IF i > Len(refs) THEN [values |-> defs, panic |-> FALSE]
  ELSE LET d == Definition(refs[i])
       IN IF d.err THEN [values |-> <<>>, panic |-> TRUE]
          ELSE PackagesLoop(refs, i + 1, [defs EXCEPT ![i] = d.pkg])

Packages(iter) ==
  LET refs == PackageReferences(iter)
  IN PackagesLoop(refs, 1, [i \in 1..Len(refs) |-> NilPkg])

\* Faulty variant of SnapshotsLoop: a failing package is skipped and the loop
\* goes on.
RECURSIVE SnapshotsLoop_SkipFailed(_, _, _, _)
SnapshotsLoop_SkipFailed(keys, i, values, touched) ==
  IF i > Len(keys)
    THEN [values |-> values, isNil |-> FALSE, err |-> <<>>, touched |-> touched]
    ELSE LET ref == referencedPackages[keys[i]]
             m == IF ref.partial THEN Snapshot(ref) ELSE Definition(ref)
         IN SnapshotsLoop_SkipFailed(keys, i + 1,
              IF m.err THEN values ELSE Append(values, m.pkg),
              Append(touched, ref.name))

\* Faulty variant of SnapshotsLoop: every reference is answered with
\* Snapshot(), the type assertion to *schema.PartialPackage left out.
RECURSIVE SnapshotsLoop_AlwaysSnapshot(_, _, _, _)
SnapshotsLoop_AlwaysSnapshot(keys, i, values, touched) ==
  IF i > Len(keys)
    THEN [values |-> values, isNil |-> FALSE, err |-> <<>>, touched |-> touched]
    ELSE LET ref == referencedPackages[keys[i]]
             m == Snapshot(ref)
         IN IF m.err
              THEN [values |-> <<>>, isNil |-> TRUE, err |-> <<ref.name>>,
                    touched |-> Append(touched, ref.name)]
              ELSE SnapshotsLoop_AlwaysSnapshot(keys, i + 1,
                     Append(values, m.pkg), Append(touched, ref.name))

\* Program.PackageSnapshots: the loop over the sorted keys. touched lists the
\* packages whose Snapshot() or Definition() was called.
RECURSIVE SnapshotsLoop(_, _, _, _)
SnapshotsLoop(keys, i, values, touched) ==
  IF i > Len(keys)
    THEN [values |-> values, isNil |-> FALSE, err |-> <<>>, touched |-> touched]
    ELSE LET ref == referencedPackages[keys[i]]
             m == IF ref.partial THEN Snapshot(ref) ELSE Definition(ref)
         IN IF m.err
              THEN [values |-> <<>>, isNil |-> TRUE, err |-> <<ref.name>>,
                    touched |-> Append(touched, ref.name)]
              ELSE SnapshotsLoop(keys, i + 1, Append(values, m.pkg),
                                 Append(touched, ref.name))

PackageSnapshots(iter) == SnapshotsLoop(SortStrings(iter), 1, <<>>, <<>>)

InitPkg ==
  /\ r = NewNode
  /\ hist = NoHist
  /\ ret = NoRet
  /\ BindIdle
  /\ PkgIdle
  /\ ResolverIdle
  /\ EnvIdle
  /\ PolicyIdle

\* The binder resolves a package name (spec 4.4): memoized, so a name already
\* in the table keeps its reference; otherwise the reference the schema
\* provider hands out is stored under the package's name.
ResolvePackage ==
  /\ ~returned
  /\ \E nm \in PkgNames : \E ref \in Refs(nm) :
       /\ nm \in DOMAIN referencedPackages
            \/ Cardinality(DOMAIN referencedPackages) < MaxPkgs
       /\ referencedPackages' =
            IF nm \in DOMAIN referencedPackages THEN referencedPackages
            ELSE [k \in DOMAIN referencedPackages \cup {nm} |->
                    IF k = nm THEN ref ELSE referencedPackages[k]]
  /\ UNCHANGED <<returned, out>>
  /\ UNCHANGED notPkg

\* The bind pass returns the Program; the table is queried from then on.
ReturnProgram ==
  /\ ~returned
  /\ returned' = TRUE
  /\ UNCHANGED <<referencedPackages, out>>
  /\ UNCHANGED notPkg

CallPackageReferences ==
  /\ returned
  /\ \E iter \in Orders(DOMAIN referencedPackages) :
       out' = [NoOut EXCEPT !.op = "PackageReferences", !.inOrder = InOrder(iter),
                            !.values = PackageReferences(iter)]
  /\ UNCHANGED <<referencedPackages, returned>>
  /\ UNCHANGED notPkg

CallPackages ==
  /\ returned
  /\ \E iter \in Orders(DOMAIN referencedPackages) :
       LET res == Packages(iter)
       IN out' = [NoOut EXCEPT !.op = "Packages", !.inOrder = InOrder(iter),
                               !.values = res.values, !.panic = res.panic]
  /\ UNCHANGED <<referencedPackages, returned>>
  /\ UNCHANGED notPkg

\* Faulty variant of CallPackageSnapshots: the query deletes the failing
\* package from the table before it returns the error.
CallPackageSnapshots_DropFailing ==
  /\ returned
  /\ \E iter \in Orders(DOMAIN referencedPackages) :
       LET res == PackageSnapshots(iter)
       IN /\ out' = [NoOut EXCEPT !.op = "PackageSnapshots",
                                  !.inOrder = InOrder(iter),
                                  !.values = res.values, !.isNil = res.isNil,
                                  !.err = res.err, !.touched = res.touched]
          /\ referencedPackages' =
               [k \in DOMAIN referencedPackages \ Range(res.err) |->
                  referencedPackages[k]]
  /\ UNCHANGED returned
  /\ UNCHANGED notPkg

CallPackageSnapshots ==
  /\ returned
  /\ \E iter \in Orders(DOMAIN referencedPackages) :
       LET res == PackageSnapshots(iter)
       IN out' = [NoOut EXCEPT !.op = "PackageSnapshots", !.inOrder = InOrder(iter),
                               !.values = res.values, !.isNil = res.isNil,
                               !.err = res.err, !.touched = res.touched]
  /\ UNCHANGED <<referencedPackages, returned>>
  /\ UNCHANGED notPkg

NextPkg ==
  \/ ResolvePackage
  \/ ReturnProgram
  \/ CallPackageReferences
  \/ CallPackages
  \/ CallPackageSnapshots

SpecPkg == InitPkg /\ [][NextPkg]_vars

\* ------------------------------------ SpecResolve: the package resolver
\* The members of a package a program can use.
Members == {"m1", "m2"}

\* The references handed out under a schema state without failures; the
\* outcome of a later Definition() or Snapshot() plays no part in resolution.
HealthyRefs(nm) == {ref \in Refs(nm) : ~ref.defErr /\ ~ref.snapErr}

\* The map m with key k set to v.
Put(m, k, v) == [x \in DOMAIN m \cup {k} |-> IF x = k THEN v ELSE m[x]]

\* Faulty variant of resolve: no memoization; every resolution stores the
\* reference the schema provider hands out, with a fresh usage set.
resolve_NoMemo(table, used, nm, fresh) ==
  [table |-> Put(table, nm, fresh),
   used |-> IF fresh.partial THEN Put(used, nm, {})
            ELSE [k \in DOMAIN used \ {nm} |-> used[k]],
   ref |-> fresh]

\* resolve(packageName) (spec 4.4): a name already in the table returns the
\* existing reference; otherwise the reference handed out by the schema
\* provider is stored, a partial one with an empty usage set.
resolve(table, used, nm, fresh) ==
  IF nm \in DOMAIN table
    THEN [table |-> table, used |-> used, ref |-> table[nm]]
    ELSE [table |-> Put(table, nm, fresh),
          used |-> IF fresh.partial THEN Put(used, nm, {}) ELSE used,
          ref |-> fresh]

InitResolve ==
  /\ r = NewNode
  /\ hist = NoHist
  /\ ret = NoRet
  /\ BindIdle
  /\ PkgIdle
  /\ ResolverIdle
  /\ EnvIdle
  /\ PolicyIdle

\* The binder resolves a package token and keeps the returned reference.
ResolveName ==
  /\ ~returned
  /\ \E nm \in PkgNames : \E fresh \in HealthyRefs(nm) :
       /\ nm \in DOMAIN referencedPackages
            \/ Cardinality(DOMAIN referencedPackages) < MaxPkgs
       /\ LET res == resolve(referencedPackages, usage, nm, fresh)
          IN /\ referencedPackages' = res.table
             /\ usage' = res.used
             /\ resolved' = [ref |-> res.ref,
                             again |-> nm \in DOMAIN referencedPackages,
                             notified |-> {}]
             /\ handed' = Put(handed, nm,
                              IF nm \in DOMAIN handed
                                THEN handed[nm] \cup {res.ref} ELSE {res.ref})
  /\ UNCHANGED <<recorded, returned, out>>
  /\ UNCHANGED notRes

\* The binder notifies the reference it resolved last, a partial one, that
\* a member of the package is used.
NotifyUse ==
  /\ ~returned
  /\ resolved.ref # NoRef
  /\ resolved.ref.partial
  /\ \E m \in Members :
       LET nm == resolved.ref.name
       IN /\ usage' = Put(usage, nm,
                          IF nm \in DOMAIN usage THEN usage[nm] \cup {m}
                          ELSE {m})
          /\ recorded' = recorded \cup {<<nm, m>>}
          /\ resolved' = [resolved EXCEPT !.notified = @ \cup {m}]
  /\ UNCHANGED <<handed, referencedPackages, returned, out>>
  /\ UNCHANGED notRes

NextResolve ==
  \/ ResolveName
  \/ NotifyUse

SpecResolve == InitResolve /\ [][NextResolve]_vars

\* ------------------------------------------- SpecEnv: getEnvOrDefault
\* Most names a caller lists in one call.
MaxVars == 3

\* The values a variable can have; "" is what os.Getenv returns for a
\* variable that is unset or empty.
EnvValues == {"", "0", "1", "true", "1.5", "x"}

BoolValue(b) == [t |-> "bool", n |-> IF b THEN 1 ELSE 0, s |-> ""]

IntValue(i) == [t |-> "int", n |-> i, s |-> ""]

\* A float64, n holding it in tenths.
FloatValue(tenths) == [t |-> "float64", n |-> tenths, s |-> ""]

StringValue(v) == [t |-> "string", n |-> 0, s |-> v]

\* strconv.ParseBool accepts "1", "t", "true", "0", "f", "false" and their
\* capitalized forms, nothing else.
parseEnvBool(v) ==
  IF v \in {"1", "true"} THEN BoolValue(TRUE)
  ELSE IF v = "0" THEN BoolValue(FALSE)
  ELSE NilValue

\* strconv.ParseInt(v, 0, 0) accepts integer literals only.
parseEnvInt(v) ==
  IF v = "0" THEN IntValue(0)
  ELSE IF v = "1" THEN IntValue(1)
  ELSE NilValue

\* strconv.ParseFloat(v, 64) accepts decimal numbers.
parseEnvFloat(v) ==
  IF v = "0" THEN FloatValue(0)
  ELSE IF v = "1" THEN FloatValue(10)
  ELSE IF v = "1.5" THEN FloatValue(15)
  ELSE NilValue

\* The envParser arguments; "nil" is the nil parser.
Parsers == {"nil", "parseEnvBool", "parseEnvInt", "parseEnvFloat"}

\* parser(value) for a parser that is not nil.
Parse(parser, v) ==
  CASE parser = "parseEnvBool" -> parseEnvBool(v)
    [] parser = "parseEnvInt" -> parseEnvInt(v)
    [] parser = "parseEnvFloat" -> parseEnvFloat(v)

\* The defaults a caller passes.
Defaults == {NilValue, BoolValue(TRUE), StringValue("x")}

\* Faulty variant of ScanVars: a value the parser rejects is passed over and
\* the scan goes on with the next name.
RECURSIVE ScanVars_SkipRejected(_, _, _, _)
ScanVars_SkipRejected(def, parser, vs, i) ==
  IF i > Len(vs)
    THEN [how |-> "default", value |-> def, looked |-> vs]
    ELSE LET value == env[vs[i]]
         IN IF value # "" /\ parser = "nil"
              THEN [how |-> "raw", value |-> StringValue(value),
                    looked |-> SubSeq(vs, 1, i)]
            ELSE IF value # "" /\ Parse(parser, value) # NilValue
              THEN [how |-> "parsed", value |-> Parse(parser, value),
                    looked |-> SubSeq(vs, 1, i)]
            ELSE ScanVars_SkipRejected(def, parser, vs, i + 1)

\* The loop of getEnvOrDefault from the i-th name on. looked lists the
\* names os.Getenv was called with.
RECURSIVE ScanVars(_, _, _, _)
ScanVars(def, parser, vs, i) ==
  IF i > Len(vs)
    THEN [how |-> "default", value |-> def, looked |-> vs]
    ELSE LET value == env[vs[i]]
         IN IF value # ""
              THEN IF parser # "nil"
                     THEN [how |-> "parsed", value |-> Parse(parser, value),
                           looked |-> SubSeq(vs, 1, i)]
                     ELSE [how |-> "raw", value |-> StringValue(value),
                           looked |-> SubSeq(vs, 1, i)]
              ELSE ScanVars(def, parser, vs, i + 1)

getEnvOrDefault(def, parser, vs) == ScanVars(def, parser, vs, 1)

\* Any environment the process may have been started in.
InitEnv ==
  /\ r = NewNode
  /\ hist = NoHist
  /\ ret = NoRet
  /\ BindIdle
  /\ PkgIdle
  /\ ResolverIdle
  /\ PolicyIdle
  /\ env \in [VarNames -> EnvValues]
  /\ got = NoGot

CallGetEnvOrDefault ==
  /\ got = NoGot
  /\ \E def \in Defaults, parser \in Parsers,
        vs \in BoundedSeq(VarNames, MaxVars) :
       LET res == getEnvOrDefault(def, parser, vs)
       IN got' = [how |-> res.how, def |-> def, parser |-> parser,
                  vars |-> vs, value |-> res.value, looked |-> res.looked]
  /\ UNCHANGED env
  /\ UNCHANGED notEnv

NextEnv == CallGetEnvOrDefault

SpecEnv == InitEnv /\ [][NextEnv]_vars

\* ------------------------------------------ SpecPolicy: runNewPolicyPack
\* Most templates the repository lists.
MaxTemplates == 2

NewPolicyArgs == [dir : BOOLEAN, force : BOOLEAN, generateOnly : BOOLEAN]

\* A call made by runNewPolicyPack and whether it succeeded.
Step(op, ok) == [op |-> op, ok |-> ok]

\* Faulty variant of afterWorkingDir: the directory is never checked.
afterWorkingDir_NoCheck(a) == "RetrieveTemplates"

\* if !args.force { errorIfNotEmptyDirectory(cwd) }
afterWorkingDir(a) ==
  IF ~a.force THEN "errorIfNotEmptyDirectory" ELSE "RetrieveTemplates"

\* if args.dir != "" { MkdirAll; Chdir; Getwd }
afterGetwd(a) == IF a.dir THEN "MkdirAll" ELSE afterWorkingDir(a)

\* if !args.force { CopyPolicyTemplateFilesDryRun(cwd) }
afterChoice(a) ==
  IF ~a.force THEN "CopyPolicyTemplateFilesDryRun"
  ELSE "CopyPolicyPackTemplateFiles"

\* Faulty variant of afterCopy: dependencies are installed in any case.
afterCopy_AlwaysInstall(a) == "npmInstallDependencies"

\* if !args.generateOnly { npmInstallDependencies() }
afterCopy(a) == IF ~a.generateOnly THEN "npmInstallDependencies" ELSE "return"

\* Faulty variant of deferred: repo.Delete() runs whether or not the defer
\* statement was reached.
deferred_Always(registered, st, ok) == Append(st, Step("repo.Delete", ok))

\* The deferred call run when the function returns: repo.Delete(), its
\* error ignored, if the defer statement was reached.
deferred(registered, st, ok) ==
  IF registered THEN Append(st, Step("repo.Delete", ok)) ELSE st

\* The statement at pc calls op: on success control goes to then, on an
\* error the function returns that error.
Call(at, op, then) ==
  /\ pc = at
  /\ \E ok \in BOOLEAN :
       /\ steps' = Append(steps, Step(op, ok))
       /\ pc' = IF ok THEN then ELSE "return"
       /\ result' = IF ok THEN result ELSE op

InitPolicy ==
  /\ r = NewNode
  /\ hist = NoHist
  /\ ret = NoRet
  /\ BindIdle
  /\ PkgIdle
  /\ ResolverIdle
  /\ EnvIdle
  /\ args \in NewPolicyArgs
  /\ pc = "Getwd"
  /\ steps = <<>>
  /\ templates = 0
  /\ repo = FALSE
  /\ result = "nil"

Getwd ==
  /\ Call("Getwd", "os.Getwd", afterGetwd(args))
  /\ UNCHANGED <<args, templates, repo>>
  /\ UNCHANGED notPol

MkdirAll ==
  /\ Call("MkdirAll", "os.MkdirAll", "Chdir")
  /\ UNCHANGED <<args, templates, repo>>
  /\ UNCHANGED notPol

Chdir ==
  /\ Call("Chdir", "os.Chdir", "GetwdInDir")
  /\ UNCHANGED <<args, templates, repo>>
  /\ UNCHANGED notPol

GetwdInDir ==
  /\ Call("GetwdInDir", "os.Getwd", afterWorkingDir(args))
  /\ UNCHANGED <<args, templates, repo>>
  /\ UNCHANGED notPol

ErrorIfNotEmptyDirectory ==
  /\ Call("errorIfNotEmptyDirectory", "errorIfNotEmptyDirectory",
          "RetrieveTemplates")
  /\ UNCHANGED <<args, templates, repo>>
  /\ UNCHANGED notPol

\* On success the defer statement that deletes the repository is reached.
RetrieveTemplates ==
  /\ Call("RetrieveTemplates", "workspace.RetrieveTemplates",
          "PolicyTemplates")
  /\ repo' = (pc' = "PolicyTemplates")
  /\ UNCHANGED <<args, templates>>
  /\ UNCHANGED notPol

\* repo.PolicyTemplates() fails, or lists no template, one, or several.
PolicyTemplates ==
  /\ pc = "PolicyTemplates"
  /\ \/ /\ steps' = Append(steps, Step("repo.PolicyTemplates", FALSE))
        /\ pc' = "return"
        /\ result' = "repo.PolicyTemplates"
        /\ UNCHANGED templates
     \/ \E n \in 0..MaxTemplates :
          /\ steps' = Append(steps, Step("repo.PolicyTemplates", TRUE))
          /\ templates' = n
          /\ pc' = IF n = 0 THEN "return"
                   ELSE IF n = 1 THEN afterChoice(args)
                   ELSE "choosePolicyPackTemplate"
          /\ result' = IF n = 0 THEN "no templates" ELSE result
  /\ UNCHANGED <<args, repo>>
  /\ UNCHANGED notPol

ChoosePolicyPackTemplate ==
  /\ Call("choosePolicyPackTemplate", "choosePolicyPackTemplate",
          afterChoice(args))
  /\ UNCHANGED <<args, templates, repo>>
  /\ UNCHANGED notPol

CopyPolicyTemplateFilesDryRun ==
  /\ Call("CopyPolicyTemplateFilesDryRun", "CopyPolicyTemplateFilesDryRun",
          "CopyPolicyPackTemplateFiles")
  /\ UNCHANGED <<args, templates, repo>>
  /\ UNCHANGED notPol

CopyPolicyPackTemplateFiles ==
  /\ Call("CopyPolicyPackTemplateFiles", "CopyPolicyPackTemplateFiles",
          afterCopy(args))
  /\ UNCHANGED <<args, templates, repo>>
  /\ UNCHANGED notPol

NpmInstallDependencies ==
  /\ Call("npmInstallDependencies", "npmInstallDependencies", "return")
  /\ UNCHANGED <<args, templates, repo>>
  /\ UNCHANGED notPol

\* The function returns: the deferred call runs, then the caller has the
\* result.
Return ==
  /\ pc = "return"
  /\ \E ok \in BOOLEAN : steps' = deferred(repo, steps, ok)
  /\ pc' = "done"
  /\ UNCHANGED <<args, templates, repo, result>>
  /\ UNCHANGED notPol

NextPolicy ==
  \/ Getwd
  \/ MkdirAll
  \/ Chdir
  \/ GetwdInDir
  \/ ErrorIfNotEmptyDirectory
  \/ RetrieveTemplates
  \/ PolicyTemplates
  \/ ChoosePolicyPackTemplate
  \/ CopyPolicyTemplateFilesDryRun
  \/ CopyPolicyPackTemplateFiles
  \/ NpmInstallDependencies
  \/ Return

SpecPolicy == InitPolicy /\ [][NextPolicy]_vars

\* ------------------------------------------------- claims on the node flags
\* C1: for any sequence of markBinding() and markBound() calls, isBinding()
\* is true if and only if markBinding() has been called and markBound() has
\* not been called yet; the value an isBinding() call returns is that one.
C1_IsBindingIffBinding ==
  /\ isBinding(r) <=> (hist.mb /\ ~hist.md)
  /\ ret.op = "isBinding" => (ret.b <=> (hist.mb /\ ~hist.md))

\* An isBinding() call answered true between markBinding() and markBound().
C1_Witness == ret.op = "isBinding" /\ ret.b /\ hist.mb /\ ~hist.md

\* C2: Bound is permanent: once isBound() is true no later markBinding(),
\* markBound() or setDependencies() call makes isBound() false or
\* isBinding() true.
C2_BoundPermanent == [][isBound(r) => (isBound(r') /\ ~isBinding(r'))]_vars

\* A Bound node on which all three mutators were called after it was Bound.
C2_Witness ==
  isBound(r) /\ hist.late = {"markBinding", "markBound", "setDependencies"}

\* C3 as claimed: markBound() on a node on which markBinding() was never
\* called is rejected and does not make isBound() true.
C3_MarkBoundRejectedWhenUnbound == ~hist.mb => ~isBound(r)

\* C3 as amended: markBound() is unguarded; isBound() is true exactly when
\* markBound() has been called, whatever state the node was in, and it is
\* true right after every markBound() call.
C3_MarkBoundUnguarded ==
  /\ isBound(r) <=> hist.md
  /\ ret.op = "markBound" => isBound(r)

\* markBound() was just called on a node that never saw markBinding(), and
\* the node answers isBound().
C3_Witness == ret.op = "markBound" /\ ~hist.mb /\ isBound(r)

\* C7 as claimed: while a node is Unbound or Binding, getDependencies()
\* hands out no dependency list.
C7_NoDependenciesBeforeBound ==
  (ret.op = "getDependencies" /\ ~isBound(r)) => ret.l = <<>>

\* C7 as amended: getDependencies() is not guarded by the binding state; in
\* Unbound, Binding and Bound alike it returns the list last stored by
\* setDependencies(), and nil when nothing was stored.
C7_GetDependenciesReturnsStored ==
  /\ getDependencies(r) = hist.arg
  /\ ret.op = "getDependencies" => ret.l = hist.arg
  /\ ~hist.sd => getDependencies(r) = <<>>

\* getDependencies() handed out a non-empty list for a node still Binding.
C7_Witness == ret.op = "getDependencies" /\ isBinding(r) /\ ret.l # <<>>

\* --------------------------------------------------- claims on the bind pass
\* The nodes a declaration depends on, directly or transitively.
RECURSIVE ReachFrom(_, _)
ReachFrom(S, k) ==
  IF k = 0 THEN S
  ELSE ReachFrom(S \cup UNION {Range(body[x]) : x \in S}, k - 1)

Reaches(n) == ReachFrom(Range(body[n]), NumNodes)

OnCycle(n) == n \in Reaches(n)

DependsOnCycle(n) == OnCycle(n) \/ \E m \in Reaches(n) : OnCycle(m)

\* Position of a Bound node in the order of the markBound() calls.
Pos(n) == CHOOSE i \in 1..Len(boundOrder) : boundOrder[i] = n

\* o references ref, and ref is declared later in source order.
ForwardRef(o, ref) == o < ref /\ ref \in Range(body[o])

\* C4: when the pass ends, markBound() was never called on a node that is
\* on a reference cycle and no such node is Bound; if the program has a
\* cycle at least one circular-reference diagnostic was produced; and every
\* declaration that is neither on a cycle nor depends on one is Bound.
C4_CycleDetection ==
  phase = "done" =>
    /\ \A n \in Nodes :
         OnCycle(n) => (~isBound(nodes[n]) /\ n \notin Range(boundOrder))
    /\ (\E n \in Nodes : OnCycle(n)) => diags >= 1
    /\ \A n \in Nodes : ~DependsOnCycle(n) => isBound(nodes[n])

\* The pass over 1 -> 2 -> 3 -> 1 plus the unrelated declaration 4 ended:
\* a diagnostic, no node of the cycle Bound, 4 Bound.
C4_Witness ==
  /\ phase = "done"
  /\ body[1] = <<2>> /\ body[2] = <<3>> /\ body[3] = <<1>> /\ body[4] = <<>>
  /\ diags >= 1
  /\ \A n \in 1..3 : ~isBound(nodes[n])
  /\ isBound(nodes[4])

\* C5 as claimed: a declaration that references a later declaration and is
\* not itself on a cycle ends the pass Bound, was Bound after the referenced
\* node, and has the referenced node among its dependencies.
C5_ForwardReferenceNotOnCycle ==
  phase = "done" =>
    \A o \in Nodes : \A ref \in Nodes :
      (ForwardRef(o, ref) /\ ~OnCycle(o)) =>
        /\ isBound(nodes[o]) /\ isBound(nodes[ref])
        /\ Pos(ref) < Pos(o)
        /\ ref \in Range(getDependencies(nodes[o]))

\* C5 as amended: a declaration that references a later declaration and
\* neither is on a cycle nor depends on one ends the pass Bound, was Bound
\* after the referenced node, and has the referenced node among its
\* dependencies.
C5_ForwardReferencesBind ==
  phase = "done" =>
    \A o \in Nodes : \A ref \in Nodes :
      (ForwardRef(o, ref) /\ ~DependsOnCycle(o)) =>
        /\ isBound(nodes[o]) /\ isBound(nodes[ref])
        /\ Pos(ref) < Pos(o)
        /\ ref \in Range(getDependencies(nodes[o]))

\* Declaration 1 references declaration 2 only; the pass ended with 2 Bound
\* first, then 1, and 2 among the dependencies of 1.
C5_Witness ==
  /\ phase = "done"
  /\ body[1] = <<2>> /\ ~DependsOnCycle(1)
  /\ isBound(nodes[1]) /\ isBound(nodes[2])
  /\ Pos(2) < Pos(1)
  /\ getDependencies(nodes[1]) = <<2>>

\* C6: during one pass markBinding() is called at most once on a node and
\* exactly once by the end, and markBound() at most once.
C6_MarkedExactlyOnce ==
  \A n \in Nodes :
    /\ calls[n].markBinding <= 1
    /\ calls[n].markBound <= 1
    /\ phase = "done" => calls[n].markBinding = 1

\* C8: for every Bound node setDependencies() was called before markBound(),
\* and the stored list holds exactly the nodes the body references, each
\* once.
C8_DependenciesDeduplicated ==
  \A n \in Nodes :
    /\ calls[n].markBound >= 1 => calls[n].setDependencies >= 1
    /\ isBound(nodes[n]) =>
         /\ calls[n].setDependencies >= 1
         /\ Range(getDependencies(nodes[n])) = Range(body[n])
         /\ Len(getDependencies(nodes[n])) =
              Cardinality(Range(getDependencies(nodes[n])))

\* Declaration 1 references declaration 2 twice and is Bound with the single
\* dependency 2.
C8_Witness ==
  /\ body[1] = <<2, 2>>
  /\ isBound(nodes[1])
  /\ getDependencies(nodes[1]) = <<2>>

\* --------------------------------------------- claims on the package queries
\* The keys of the table as the one strictly ascending sequence.
Ascending(seq) == \A i \in 1..(Len(seq) - 1) : StrLess(seq[i].name, seq[i + 1].name)

\* The packages whose materialization PackageSnapshots() asks for fails.
Failing ==
  {k \in DOMAIN referencedPackages :
     IF referencedPackages[k].partial THEN referencedPackages[k].snapErr
     ELSE referencedPackages[k].defErr}

\* The first failing package in name order.
FirstFailing == CHOOSE k \in Failing : \A j \in Failing \ {k} : StrLess(k, j)

\* C9: whatever order the map yields its keys in, PackageReferences(),
\* a Packages() that returns and a PackageSnapshots() that succeeds return
\* one entry per key of referencedPackages in strictly ascending name order;
\* every other iteration order gives PackageReferences() the same list.
C9_SortedByName ==
  /\ (out.op \in {"PackageReferences", "Packages", "PackageSnapshots"}
        /\ ~out.panic /\ ~out.isNil) =>
       /\ Len(out.values) = Cardinality(DOMAIN referencedPackages)
       /\ {out.values[i].name : i \in 1..Len(out.values)} =
            DOMAIN referencedPackages
       /\ Ascending(out.values)
  /\ out.op = "PackageReferences" =>
       \A iter \in Orders(DOMAIN referencedPackages) :
         PackageReferences(iter) = out.values

\* PackageSnapshots() succeeded on three packages that the map did not yield
\* in ascending order.
C9_Witness ==
  /\ out.op = "PackageSnapshots" /\ ~out.isNil
  /\ ~out.inOrder
  /\ Len(out.values) = 3

\* C10: PackageSnapshots() returns a list exactly when no referenced package
\* fails; otherwise it returns nil and an error naming the first failing
\* package in name order, having materialized that package and the ones
\* sorted before it and none sorted after it.
C10_AllOrNothing ==
  out.op = "PackageSnapshots" =>
    IF Failing = {}
      THEN /\ ~out.isNil /\ out.err = <<>>
           /\ Len(out.values) = Cardinality(DOMAIN referencedPackages)
      ELSE /\ out.isNil /\ out.values = <<>>
           /\ out.err = <<FirstFailing>>
           /\ Range(out.touched) =
                {k \in DOMAIN referencedPackages :
                   k = FirstFailing \/ StrLess(k, FirstFailing)}

\* PackageSnapshots() failed on the second of three packages: one package
\* was materialized before it, the third never.
C10_Witness ==
  /\ out.op = "PackageSnapshots" /\ out.isNil
  /\ Cardinality(DOMAIN referencedPackages) = 3
  /\ Len(out.touched) = 2
  /\ out.err = <<out.touched[2]>>

\* C11: Packages() never silently omits a package: when it returns a list,
\* the list holds, for every key of referencedPackages and in key order, the
\* definition of that package, no slot left nil; when the Definition() of any
\* referenced package fails it returns no list at all (it panics).
C11_PackagesComplete ==
  out.op = "Packages" =>
    /\ ~out.panic =>
         /\ Len(out.values) = Cardinality(DOMAIN referencedPackages)
         /\ \A i \in 1..Len(out.values) :
              /\ out.values[i] # NilPkg
              /\ out.values[i].name \in DOMAIN referencedPackages
              /\ out.values[i] =
                   Definition(referencedPackages[out.values[i].name]).pkg
         /\ \A k \in DOMAIN referencedPackages :
              \E i \in 1..Len(out.values) : out.values[i].name = k
    /\ out.panic <=>
         \E k \in DOMAIN referencedPackages : referencedPackages[k].defErr
    /\ out.panic => out.values = <<>>

\* Packages() was called on three packages of which one fails to
\* materialize, and returned no list.
C11_Witness ==
  /\ out.op = "Packages" /\ out.panic /\ out.values = <<>>
  /\ Cardinality(DOMAIN referencedPackages) = 3
  /\ Cardinality({k \in DOMAIN referencedPackages :
                    referencedPackages[k].defErr}) = 1

\* C12 as claimed: a materialization failure during Packages() or
\* PackageSnapshots() comes back as an error value of the query and is never
\* raised as a panic.
C12_FailuresReturnedAsErrors ==
  /\ out.op \in {"Packages", "PackageSnapshots"} => ~out.panic
  /\ (out.op = "PackageSnapshots" /\ Failing # {}) => out.err # <<>>

\* C13: in the list PackageSnapshots() returns, the entry of every package
\* whose reference is not partial is its Definition(), the entry Packages()
\* returns at the same place, and the entry of a partial reference is its
\* Snapshot(); when no reference is partial the two queries return equal
\* lists, and one fails exactly when the other does.
C13_FullPartialEquivalence ==
  out.op = "PackageSnapshots" =>
    \A iter \in Orders(DOMAIN referencedPackages) :
      LET refs == PackageReferences(iter)
          p == Packages(iter)
      IN /\ ~out.isNil =>
              \A i \in 1..Len(refs) :
                IF refs[i].partial
                  THEN out.values[i] = Snapshot(refs[i]).pkg
                  ELSE /\ out.values[i] = Definition(refs[i]).pkg
                       /\ ~p.panic => p.values[i] = out.values[i]
         /\ (\A i \in 1..Len(refs) : ~refs[i].partial) =>
              /\ p.panic <=> out.isNil
              /\ p.values = out.values

\* PackageSnapshots() returned three entries, a Definition() and a
\* Snapshot() among them, for a table on which Packages() returns too.
C13_Witness ==
  /\ out.op = "PackageSnapshots" /\ ~out.isNil /\ Len(out.values) = 3
  /\ \E i, j \in 1..3 :
       out.values[i].kind = "definition" /\ out.values[j].kind = "snapshot"
  /\ \A k \in DOMAIN referencedPackages : ~referencedPackages[k].defErr

\* C14: once the Program is returned, every step (the queries
\* PackageReferences, Packages and PackageSnapshots, succeeding or failing)
\* leaves the referencedPackages table and the Nodes list unchanged.
C14_QueriesReadOnly ==
  [][returned => /\ referencedPackages' = referencedPackages
                 /\ nodes' = nodes]_vars

\* A failed PackageSnapshots() on a table that still holds the failing
\* package.
C14_Witness ==
  /\ out.op = "PackageSnapshots" /\ out.isNil
  /\ Range(out.err) \subseteq DOMAIN referencedPackages
  /\ Cardinality(DOMAIN referencedPackages) = 3

\* C20: in every state reached by markBinding(), markBound() and
\* setDependencies() calls, isBinding() and isBound() are not both true; a
\* second markBinding() or markBound() changes nothing the first did not;
\* and setDependencies(), whatever list it is given, changes neither
\* isBinding() nor isBound().
C20_FlagsConsistent ==
  /\ ~(isBinding(r) /\ isBound(r))
  /\ markBinding(markBinding(r)) = markBinding(r)
  /\ markBound(markBound(r)) = markBound(r)
  /\ hist.mb => markBinding(r) = r
  /\ hist.md => markBound(r) = r
  /\ \A ds \in DepLists :
       /\ isBinding(setDependencies(r, ds)) = isBinding(r)
       /\ isBound(setDependencies(r, ds)) = isBound(r)

\* Both flags of the node are set, setDependencies() was the last call and
\* was made on the Bound node, as were markBinding() and markBound().
C20_Witness ==
  /\ r.binding /\ r.bound
  /\ ret.op = "setDependencies" /\ r.deps # <<>>
  /\ hist.late = {"markBinding", "markBound", "setDependencies"}

\* C15: after any sequence of resolve(name) calls and usage notifications,
\* referencedPackages holds one reference per resolved name, stored under
\* that name; every resolve() of a name returned this one reference; and
\* the usage set of a partial reference holds exactly the members notified
\* through any resolution of its name.
C15_ResolutionMemoized ==
  /\ DOMAIN handed = DOMAIN referencedPackages
  /\ \A nm \in DOMAIN referencedPackages :
       /\ referencedPackages[nm].name = nm
       /\ handed[nm] = {referencedPackages[nm]}
  /\ resolved.ref # NoRef =>
       referencedPackages[resolved.ref.name] = resolved.ref
  /\ DOMAIN usage =
       {nm \in DOMAIN referencedPackages : referencedPackages[nm].partial}
  /\ \A nm \in DOMAIN usage :
       usage[nm] = {m \in Members : <<nm, m>> \in recorded}

\* A partial package was resolved and one member notified; after another
\* package was resolved it was resolved again and its other member
\* notified through the repeated resolution: its usage set holds both.
C15_Witness ==
  /\ Cardinality(DOMAIN referencedPackages) >= 2
  /\ resolved.again /\ resolved.ref.partial
  /\ resolved.notified = {"m2"}
  /\ usage[resolved.ref.name] = Members

\* The places in the name list of the last call whose variable is set to a
\* non-empty value.
NonEmptyAt == {i \in 1..Len(got.vars) : env[got.vars[i]] # ""}

FirstNonEmpty == CHOOSE i \in NonEmptyAt : \A j \in NonEmptyAt : i <= j

\* C19: getEnvOrDefault returns the default exactly when every listed
\* variable is unset or empty, having looked at all of them; otherwise the
\* first name with a non-empty value decides and no later name is looked
\* at: the result is that value, as a string without a parser and as
\* parser(value) with one, which is nil when the parser rejects the value,
\* whatever the default and the later variables are.
C19_FirstNonEmptyDecides ==
  got.how # "none" =>
    IF NonEmptyAt = {}
      THEN /\ got.how = "default"
           /\ got.value = got.def
           /\ got.looked = got.vars
      ELSE LET value == env[got.vars[FirstNonEmpty]]
           IN /\ got.how # "default"
              /\ got.looked = SubSeq(got.vars, 1, FirstNonEmpty)
              /\ got.parser = "nil" => got.value = StringValue(value)
              /\ got.parser = "parseEnvBool" =>
                   got.value = IF value \in {"1", "true"} THEN BoolValue(TRUE)
                               ELSE IF value = "0" THEN BoolValue(FALSE)
                               ELSE NilValue
              /\ got.parser = "parseEnvInt" =>
                   got.value = IF value \in {"0", "1"}
                                 THEN IntValue(IF value = "0" THEN 0 ELSE 1)
                               ELSE NilValue
              /\ got.parser = "parseEnvFloat" =>
                   got.value = IF value \in {"true", "x"} THEN NilValue
                               ELSE parseEnvFloat(value)

\* Three names were listed: the first variable is empty, the second holds
\* a value parseEnvInt rejects, the third holds an integer, and the default
\* is not nil. The call looked at two names and returned nil.
C19_Witness ==
  /\ got.how = "parsed" /\ got.parser = "parseEnvInt"
  /\ Len(got.vars) = 3 /\ Len(got.looked) = 2
  /\ env[got.vars[1]] = "" /\ env[got.vars[2]] = "true"
  /\ env[got.vars[3]] = "1"
  /\ got.def # NilValue
  /\ got.value = NilValue

\* ------------------------------------------- claims on runNewPolicyPack
\* The places in steps where op was called with the given outcome.
At(op, ok) == {i \in 1..Len(steps) : steps[i] = Step(op, ok)}

\* The places in steps where op was called.
Did(op) == At(op, TRUE) \cup At(op, FALSE)

\* C16: with force = false the template files are copied only after the
\* empty-directory check succeeded and then the dry run succeeded; when
\* either fails the function returns that error and neither the copy nor
\* the installation of dependencies is performed. With force = true neither
\* check is made.
C16_CopyAfterChecks ==
  /\ ~args.force =>
       /\ \A c \in Did("CopyPolicyPackTemplateFiles") :
            \E e \in At("errorIfNotEmptyDirectory", TRUE) :
              \E d \in At("CopyPolicyTemplateFilesDryRun", TRUE) :
                e < d /\ d < c
       /\ \A op \in {"errorIfNotEmptyDirectory",
                      "CopyPolicyTemplateFilesDryRun"} :
            At(op, FALSE) # {} =>
              /\ pc \in {"return", "done"}
              /\ result = op
              /\ Did("CopyPolicyPackTemplateFiles") = {}
              /\ Did("npmInstallDependencies") = {}
  /\ args.force =>
       /\ Did("errorIfNotEmptyDirectory") = {}
       /\ Did("CopyPolicyTemplateFilesDryRun") = {}

\* Without force, the files were copied after the directory check and the
\* dry run.
C16_Witness ==
  /\ ~args.force
  /\ At("CopyPolicyPackTemplateFiles", TRUE) # {}
  /\ pc = "done"

\* C17: repo.Delete() is called at most once, and only as the last thing
\* before the function has returned; when the function has returned it was
\* called exactly once if RetrieveTemplates succeeded, whatever the function
\* returns, and not at all if the function returned before that.
C17_RepoDeletedOnce ==
  /\ Cardinality(Did("repo.Delete")) <= 1
  /\ Did("repo.Delete") # {} =>
       /\ pc = "done"
       /\ Did("repo.Delete") = {Len(steps)}
  /\ pc = "done" =>
       (Did("repo.Delete") # {} <=>
          At("workspace.RetrieveTemplates", TRUE) # {})

\* The installation of dependencies failed and the repository was deleted
\* on the way out.
C17_Witness ==
  /\ pc = "done" /\ result = "npmInstallDependencies"
  /\ Cardinality(Did("repo.Delete")) = 1

\* C18: npmInstallDependencies() is called only with generateOnly = false
\* and after the copy succeeded; the function returns nil only if the copy
\* succeeded and, with generateOnly = false, the installation succeeded.
C18_InstallAfterCopy ==
  /\ \A i \in Did("npmInstallDependencies") :
       /\ ~args.generateOnly
       /\ \E c \in At("CopyPolicyPackTemplateFiles", TRUE) : c < i
  /\ (pc \in {"return", "done"} /\ result = "nil") =>
       /\ At("CopyPolicyPackTemplateFiles", TRUE) # {}
       /\ ~args.generateOnly => At("npmInstallDependencies", TRUE) # {}
       /\ args.generateOnly => Did("npmInstallDependencies") = {}

\* With generateOnly the function returned nil after the copy, nothing
\* installed.
C18_Witness ==
  /\ pc = "done" /\ result = "nil" /\ args.generateOnly
  /\ At("CopyPolicyPackTemplateFiles", TRUE) # {}
  /\ Did("npmInstallDependencies") = {}

=============================================================================
